---- MODULE Spec2Model ----
(***************************************************************************)
(* Model of src/src/preprocess.js: the PlantUML include preprocessor       *)
(* (preprocessPlantUML and its helpers).                                   *)
(*                                                                         *)
(* A text is a sequence of symbols.  The symbols "\n", "\r", " ", "'",     *)
(* "/", "!", "<", ">", "-", ".", "\\" and the digits are single characters;*)
(* every other symbol ("include", "@startuml", "a", "http:", ...) is a     *)
(* word that contains none of those characters, so every regular           *)
(* expression of the source is evaluated position by position as the       *)
(* JavaScript engine evaluates it.                                         *)
(***************************************************************************)
EXTENDS Integers, Sequences, FiniteSets, TLC

NL == "\n"
CR == "\r"
SP == " "
Bang == "!"
Quote == "'"
Slash == "/"
Dot == "."
Backslash == "\\"

\* What \s matches among the symbols of the model.
WhiteSpace == {SP, CR, NL}

\* What "." does NOT match in a JavaScript regular expression.
LineTerminators == {NL, CR}

\* The result a function yields when it has no value (null / undefined).
None == <<"<none>">>

----------------------------------------------------------------------------
(* Sequence helpers standing for String.prototype methods.                 *)

\* s.slice(from - 1, to) in the 1-based positions of the model.
Slice(s, from, to) == SubSeq(s, from, to)

\* s.slice(from - 1)
From(s, from) == SubSeq(s, from, Len(s))

\* s.startsWith(p, at - 1)
StartsWithAt(s, p, at) ==
    /\ at >= 1
    /\ at + Len(p) - 1 <= Len(s)
    /\ \A k \in 1..Len(p) : s[at + k - 1] = p[k]

\* array.includes(x)
Includes(array, x) == \E k \in 1..Len(array) : array[k] = x

\* The least member of a set of positions, or dflt when there is none.
Least(S, dflt) == IF S = {} THEN dflt ELSE CHOOSE k \in S : \A j \in S : k <= j

\* text.split('\n'): one more piece than there are "\n" in the text.
RECURSIVE SplitLines(_)
SplitLines(text) ==
    LET p == Least({k \in 1..Len(text) : text[k] = NL}, Len(text) + 1)
    IN  IF p > Len(text) THEN <<text>>
        ELSE <<Slice(text, 1, p - 1)>> \o SplitLines(From(text, p + 1))

\* lines.join('\n')
RECURSIVE JoinLines(_)
JoinLines(lines) ==
    IF Len(lines) = 0 THEN <<>>
    ELSE IF Len(lines) = 1 THEN lines[1]
    ELSE lines[1] \o <<NL>> \o JoinLines(Tail(lines))

\* s.trim()
RECURSIVE Trim(_)
Trim(s) ==
    IF Len(s) = 0 THEN s
    ELSE IF s[1] \in WhiteSpace THEN Trim(Tail(s))
    ELSE IF s[Len(s)] \in WhiteSpace THEN Trim(Slice(s, 1, Len(s) - 1))
    ELSE s

----------------------------------------------------------------------------
(* Comment removal, preprocess.js lines 86-89.                             *)

\* text.replace(/\/'([\s\S]*?)'\//g, ''): from the left, every "/'" with
\* the nearest "'/" after it is removed together with what lies between.
RECURSIVE StripCommentMultiLine(_)
StripCommentMultiLine(text) ==
    LET n == Len(text)
        open == Least({k \in 1..n : StartsWithAt(text, <<Slash, Quote>>, k)}, n + 1)
        close == Least({k \in (open + 2)..n :
                           StartsWithAt(text, <<Quote, Slash>>, k)}, n + 1)
    IN  IF open > Len(text) \/ close > Len(text) THEN text
        ELSE Slice(text, 1, open - 1)
                 \o StripCommentMultiLine(From(text, close + 2))

\* The number of "'" in s.
RECURSIVE CountQuotes(_)
CountQuotes(s) ==
    IF Len(s) = 0 THEN 0
    ELSE (IF s[1] = Quote THEN 1 ELSE 0) + CountQuotes(Tail(s))

\* text.replace(/.*'.*'.*(\r\n|\n)/g, ''): a run of characters other than
\* line terminators that holds two "'" and is ended by "\r\n" or "\n" is
\* removed with that line end.  A match is tried at the start of each run
\* first, which is where it succeeds if it succeeds anywhere in the run.
RECURSIVE StripCommentSingleLine(_)
StripCommentSingleLine(text) ==
    LET term == Least({k \in 1..Len(text) : text[k] \in LineTerminators},
                      Len(text) + 1)
        run == Slice(text, 1, term - 1)
        endLen == IF term > Len(text) THEN 0
                  ELSE IF text[term] = NL THEN 1
                  ELSE IF StartsWithAt(text, <<CR, NL>>, term) THEN 2
                  ELSE 0
    IN  IF term > Len(text) THEN text
        ELSE IF endLen > 0 /\ CountQuotes(run) >= 2
             THEN StripCommentSingleLine(From(text, term + endLen))
        ELSE Slice(text, 1, term) \o StripCommentSingleLine(From(text, term + 1))

\* text.replace(regExCommentMultiLine, '').replace(regExCommentSingleLine, '')
StripComments(text) == StripCommentSingleLine(StripCommentMultiLine(text))

\* DiagramLines without the two replace calls of line 89.
DiagramLinesUnstripped(diagramText) == SplitLines(diagramText)

\* diagramText.replace(regExCommentMultiLine, '')
\*            .replace(regExCommentSingleLine, '').split('\n')
DiagramLines(diagramText) == SplitLines(StripComments(diagramText))

----------------------------------------------------------------------------
\* The include grammar, preprocess.js line 88:
\*   ^\s*!(include(?:_many|_once|url|sub)?)\s+((?:(?<=\\)[ ]|[^ ])+)(.*)
\* The expression has no "i" flag: only the lower-case keywords match.

IncludeSuffixes == {"_many", "_once", "url", "sub"}

\* Whether position k of the line can belong to the reference group:
\* a character that is no space, or a space that follows a backslash.
RefChar(line, k) ==
    \/ line[k] # SP
    \/ (k > 1 /\ line[k - 1] = Backslash)

\* The match of regExInclude on one line: whether it matches, the directive
\* keyword (group 1), the reference (group 2) and the position of the last
\* character of the match (the end of group 3, which "." stops before a
\* line terminator).
MatchInclude(line) ==
    LET n == Len(line)
        bang == Least({k \in 1..n : line[k] \notin WhiteSpace}, n + 1)
        hasSuffix == bang + 2 <= n /\ line[bang + 2] \in IncludeSuffixes
        ws == IF hasSuffix THEN bang + 3 ELSE bang + 2
        wsEnd == Least({k \in ws..n : line[k] \notin WhiteSpace}, n + 1)
        \* \s+ is greedy; when nothing follows the white space it gives
        \* characters back until the reference can start (never on a space).
        refStart == IF wsEnd <= n THEN wsEnd
                    ELSE Least({k \in (ws + 1)..n :
                                   /\ line[k] # SP
                                   /\ \A j \in (k + 1)..n : line[j] = SP}, n + 1)
        refEnd == Least({k \in refStart..n : ~RefChar(line, k)}, n + 1) - 1
        matchEnd == Least({k \in (refEnd + 1)..n :
                              line[k] \in LineTerminators}, n + 1) - 1
        keyword == bang + 1 <= n /\ line[bang] = Bang /\ line[bang + 1] = "include"
    IN  IF keyword /\ ws <= n /\ line[ws] \in WhiteSpace /\ refStart <= n
        THEN [matched |-> TRUE,
              include |-> Slice(line, bang + 1, ws - 1),
              ref |-> Slice(line, refStart, refEnd),
              matchEnd |-> matchEnd]
        ELSE [matched |-> FALSE, include |-> <<>>, ref |-> <<>>, matchEnd |-> 0]

\* s.split('!')
RECURSIVE SplitBang(_)
SplitBang(s) ==
    LET p == Least({k \in 1..Len(s) : s[k] = Bang}, Len(s) + 1)
    IN  IF p > Len(s) THEN <<s>>
        ELSE <<Slice(s, 1, p - 1)>> \o SplitBang(From(s, p + 1))

\* s.replace(/\\ /g, ' ')
RECURSIVE UnescapeSpaces(_)
UnescapeSpaces(s) ==
    IF Len(s) = 0 THEN s
    ELSE IF StartsWithAt(s, <<Backslash, SP>>, 1)
         THEN <<SP>> \o UnescapeSpaces(From(s, 3))
    ELSE <<s[1]>> \o UnescapeSpaces(Tail(s))

\* Lines 94-96: the url and the sub-selector of a matched reference.
UrlSub(ref) == SplitBang(Trim(ref))
UrlOf(ref) == UnescapeSpaces(UrlSub(ref)[1])
SubOf(ref) == IF Len(UrlSub(ref)) >= 2 THEN UrlSub(ref)[2] ELSE None

----------------------------------------------------------------------------
(* Paths: path.join and path.dirname (POSIX) as preprocess.js calls them,  *)
(* and isRemoteUrl, lines 280-287.                                         *)

\* p.split('/')
RECURSIVE SplitSlash(_)
SplitSlash(p) ==
    LET k == Least({j \in 1..Len(p) : p[j] = Slash}, Len(p) + 1)
    IN  IF k > Len(p) THEN <<p>>
        ELSE <<Slice(p, 1, k - 1)>> \o SplitSlash(From(p, k + 1))

\* segments.join('/')
RECURSIVE JoinSlash(_)
JoinSlash(segs) ==
    IF Len(segs) = 0 THEN <<>>
    ELSE IF Len(segs) = 1 THEN segs[1]
    ELSE segs[1] \o <<Slash>> \o JoinSlash(Tail(segs))

\* normalizeString of path.posix: "" and "." segments are dropped and ".."
\* removes the segment before it (kept when there is none and the path is
\* relative).
RECURSIVE NormalizeSegments(_, _, _)
NormalizeSegments(segs, acc, isAbsolute) ==
    IF Len(segs) = 0 THEN acc
    ELSE LET seg == segs[1]
             rest == Tail(segs)
         IN  IF seg = <<>> \/ seg = <<Dot>>
             THEN NormalizeSegments(rest, acc, isAbsolute)
             ELSE IF seg = <<Dot, Dot>>
             THEN IF Len(acc) > 0 /\ acc[Len(acc)] # <<Dot, Dot>>
                  THEN NormalizeSegments(rest, Slice(acc, 1, Len(acc) - 1), isAbsolute)
                  ELSE IF isAbsolute
                  THEN NormalizeSegments(rest, acc, isAbsolute)
                  ELSE NormalizeSegments(rest, Append(acc, seg), isAbsolute)
             ELSE NormalizeSegments(rest, Append(acc, seg), isAbsolute)

\* path.posix.normalize
PathNormalize(p) ==
    IF Len(p) = 0 THEN <<Dot>>
    ELSE LET isAbsolute == p[1] = Slash
             trailing == p[Len(p)] = Slash
             body == JoinSlash(NormalizeSegments(SplitSlash(p), <<>>, isAbsolute))
         IN  IF Len(body) = 0
             THEN (IF isAbsolute THEN <<Slash>>
                   ELSE IF trailing THEN <<Dot, Slash>> ELSE <<Dot>>)
             ELSE (IF isAbsolute THEN <<Slash>> ELSE <<>>)
                      \o body \o (IF trailing THEN <<Slash>> ELSE <<>>)

\* path.join(dirPath, url)
PathJoin(dirPath, url) ==
    IF Len(dirPath) = 0 /\ Len(url) = 0 THEN <<Dot>>
    ELSE IF Len(dirPath) = 0 THEN PathNormalize(url)
    ELSE IF Len(url) = 0 THEN PathNormalize(dirPath)
    ELSE PathNormalize(dirPath \o <<Slash>> \o url)

\* path.dirname(filePath): what precedes the last "/" that is followed by
\* a character other than "/".
PathDirname(filePath) ==
    LET n == Len(filePath)
        cut == {k \in 2..n : /\ filePath[k] = Slash
                             /\ \E j \in (k + 1)..n : filePath[j] # Slash}
        end == IF cut = {} THEN 0 ELSE CHOOSE k \in cut : \A j \in cut : j <= k
        hasRoot == n > 0 /\ filePath[1] = Slash
    IN  IF n = 0 THEN <<Dot>>
        ELSE IF end = 0 THEN (IF hasRoot THEN <<Slash>> ELSE <<Dot>>)
        ELSE IF hasRoot /\ end = 2 THEN <<Slash, Slash>>
        ELSE Slice(filePath, 1, end - 1)

\* The schemes of the model's alphabet that new URL() parses.
UrlSchemes == {"http:", "file:"}

\* isRemoteUrl: new URL(string) succeeds (a scheme followed by a host or
\* path) and its protocol is not "file:".
isRemoteUrl(string) ==
    /\ Len(string) >= 2
    /\ string[1] \in UrlSchemes
    /\ \E k \in 2..Len(string) : string[k] \notin {Slash} \cup WhiteSpace
    /\ string[1] # "file:"

----------------------------------------------------------------------------
(* The Content Source (context.vfs): a function from paths to their text,  *)
(* None for a path that does not exist and whose read fails, as a path     *)
(* outside its domain does.                                                *)

\* vfs.exists(path)
VfsExists(fs, path) == path \in DOMAIN fs /\ fs[path] # None

\* Whether vfs.read(path) returns (it throws otherwise).
VfsReads(fs, path) == path \in DOMAIN fs /\ fs[path] # None

\* vfs.read(path), where it returns.
VfsRead(fs, path) == fs[path]

\* One call of the Content Source, as the log of a run records it.
Op(name, path) == [op |-> name, path |-> path]

----------------------------------------------------------------------------
(* readPlantUmlInclude, lines 136-175.  The result carries, besides skip,  *)
(* text and filePath, the error thrown ("" when the function returns) and  *)
(* the Content Source calls the function made, in order.                   *)

ReadResult(thrown, skip, text, filePath, ops) ==
    [thrown |-> thrown, skip |-> skip, text |-> text, filePath |-> filePath,
     ops |-> ops]

\* LocalFilePath with no fallback to the url.
LocalFilePathJoined(url, joined, fs) == joined

\* Lines 158-160: the path of a local reference, joined == path.join(dirPath,
\* url).
LocalFilePath(url, joined, fs) == IF VfsExists(fs, joined) THEN joined ELSE url

\* ReadFilePath without the cycle check of line 161.
ReadFilePathUnchecked(filePath, stack, fs, exists) ==
    IF VfsReads(fs, filePath)
    THEN ReadResult("", FALSE, VfsRead(fs, filePath), filePath,
                    exists \o <<Op("read", filePath)>>)
    ELSE ReadResult("read", FALSE, <<>>, filePath,
                    exists \o <<Op("read", filePath)>>)

\* ReadFilePath with a failed read skipped, as a remote one is.
ReadFilePathSoft(filePath, stack, fs, exists) ==
    IF Includes(stack, filePath)
    THEN ReadResult("cycle", FALSE, <<>>, filePath, exists)
    ELSE IF VfsReads(fs, filePath)
    THEN ReadResult("", FALSE, VfsRead(fs, filePath), filePath,
                    exists \o <<Op("read", filePath)>>)
    ELSE ReadResult("", TRUE, <<>>, filePath,
                    exists \o <<Op("read", filePath)>>)

\* Lines 161-171: the second cycle check and the read of a local reference.
ReadFilePath(filePath, stack, fs, exists) ==
    IF Includes(stack, filePath)
    THEN ReadResult("cycle", FALSE, <<>>, filePath, exists)
    ELSE IF VfsReads(fs, filePath)
    THEN ReadResult("", FALSE, VfsRead(fs, filePath), filePath,
                    exists \o <<Op("read", filePath)>>)
    ELSE ReadResult("read", FALSE, <<>>, filePath,
                    exists \o <<Op("read", filePath)>>)

\* Lines 157-171 with joined == path.join(dirPath, url).
ReadJoined(url, joined, stack, fs) ==
    ReadFilePath(LocalFilePath(url, joined, fs), stack, fs,
                 <<Op("exists", joined)>>)

\* Lines 156-172: a local reference.
ReadLocalInclude(url, dirPath, stack, fs) ==
    ReadJoined(url, PathJoin(dirPath, url), stack, fs)

\* Lines 148-155: the read of a remote reference; a failure is a skip.
ReadRemoteInclude(url, fs) ==
    IF VfsReads(fs, url)
    THEN ReadResult("", FALSE, VfsRead(fs, url), url, <<Op("read", url)>>)
    ELSE ReadResult("", TRUE, <<>>, url, <<Op("read", url)>>)

\* UrlOnStack without the check of line 144.
UrlOnStackNever(url, stack) == FALSE

\* Lines 144-146: the first cycle check, on the url as written.
UrlOnStack(url, stack) == Includes(stack, url)

\* readPlantUmlInclude with neither cycle check.
readPlantUmlIncludeBlind(url, dirPath, stack, fs) ==
    IF StartsWithAt(url, <<"<">>, 1)
    THEN ReadResult("", TRUE, <<>>, url, <<>>)
    ELSE IF isRemoteUrl(url)
    THEN ReadRemoteInclude(url, fs)
    ELSE ReadLocalInclude(url, dirPath, <<>>, fs)

\* Lines 136-175.
readPlantUmlInclude(url, dirPath, stack, fs) ==
    IF StartsWithAt(url, <<"<">>, 1)
    THEN ReadResult("", TRUE, <<>>, url, <<>>)
    ELSE IF UrlOnStack(url, stack)
    THEN ReadResult("cycle", FALSE, <<>>, url, <<>>)
    ELSE IF isRemoteUrl(url)
    THEN ReadRemoteInclude(url, fs)
    ELSE ReadLocalInclude(url, dirPath, stack, fs)

----------------------------------------------------------------------------
(* The block extractor, lines 182-248.  Each of its regular expressions is *)
(* an opening, (?:\r\n|\n), a lazy body, (?:\r\n|\n) and a closing; a      *)
(* RegEx of the model is the opening (as the position after it, for every  *)
(* start position) and the closing.                                        *)

\* The length of what (?:\r\n|\n) matches at position k, 0 for no match.
NewlineLen(text, k) ==
    IF StartsWithAt(text, <<CR, NL>>, k) THEN 2
    ELSE IF StartsWithAt(text, <<NL>>, k) THEN 1
    ELSE 0

\* Where the body starts when "opening(?:\r\n|\n)" matches with the opening
\* ending before position k; 0 when the line end is missing.
BodyStart(text, k) == IF NewlineLen(text, k) = 0 THEN 0 ELSE k + NewlineLen(text, k)

\* @startuml(?:\r\n|\n)
StartUmlAt(text, k) ==
    IF StartsWithAt(text, <<"@startuml">>, k) THEN BodyStart(text, k + 1) ELSE 0

\* ${sub} and ${id} are put into the expression as written, so they are read
\* as expressions: whether name matches the text from position at on.  Of
\* the special characters the model has ".", any character but a line
\* terminator.
MatchesName(text, name, at) ==
    /\ at >= 1
    /\ at + Len(name) - 1 <= Len(text)
    /\ \A j \in 1..Len(name) :
          IF name[j] = Dot THEN text[at + j - 1] \notin LineTerminators
          ELSE text[at + j - 1] = name[j]

\* @startuml\(id=${id}\)(?:\r\n|\n)
StartUmlIdAt(text, id, k) ==
    IF /\ StartsWithAt(text, <<"@startuml", "(id=">>, k)
       /\ MatchesName(text, id, k + 2)
       /\ StartsWithAt(text, <<")">>, k + 2 + Len(id))
    THEN BodyStart(text, k + 2 + Len(id) + 1) ELSE 0

\* !startsub\s+${sub}(?:\r\n|\n): the white space is greedy.
StartSubAt(text, sub, k) ==
    LET n == Len(text)
        names == {w \in (k + 3)..n :
                     /\ \A j \in (k + 2)..(w - 1) : text[j] \in WhiteSpace
                     /\ MatchesName(text, sub, w)
                     /\ BodyStart(text, w + Len(sub)) # 0}
        w == CHOOSE v \in names : \A u \in names : u <= v
    IN  IF StartsWithAt(text, <<Bang, "startsub">>, k) /\ names # {}
        THEN BodyStart(text, w + Len(sub)) ELSE 0

RegExBlock(text) ==
    [open |-> [k \in 1..Len(text) |-> StartUmlAt(text, k)],
     close |-> <<"@enduml">>]

RegExId(text, id) ==
    [open |-> [k \in 1..Len(text) |-> StartUmlIdAt(text, id, k)],
     close |-> <<"@enduml">>]

RegExSub(text, sub) ==
    [open |-> [k \in 1..Len(text) |-> StartSubAt(text, sub, k)],
     close |-> <<Bang, "endsub">>]

\* Where the lazy body of a match that starts its body at bodyStart ends:
\* before the first line end that the closing follows; 0 when there is none.
BodyEnd(text, regEx, bodyStart) ==
    Least({e \in bodyStart..Len(text) :
              /\ NewlineLen(text, e) > 0
              /\ StartsWithAt(text, regEx.close, e + NewlineLen(text, e))},
          0)

\* regEx.exec(text) with the "g" flag: the leftmost match that starts at or
\* after lastIndex, its group 1 and the lastIndex it leaves.
MatchAt(text, regEx, bodyStart, bodyEnd) ==
    [found |-> TRUE,
     body |-> Slice(text, bodyStart, bodyEnd - 1),
     lastIndex |-> bodyEnd + NewlineLen(text, bodyEnd) + Len(regEx.close)]

MatchFrom(text, regEx, start) ==
    IF start = 0
    THEN [found |-> FALSE, body |-> <<>>, lastIndex |-> 1]
    ELSE MatchAt(text, regEx, regEx.open[start],
                 BodyEnd(text, regEx, regEx.open[start]))

Exec(text, regEx, lastIndex) ==
    MatchFrom(text, regEx,
              Least({k \in lastIndex..Len(text) :
                        /\ regEx.open[k] # 0
                        /\ BodyEnd(text, regEx, regEx.open[k]) # 0}, 0))

\* Lines 208-211: the loop over the second and later matches.
RECURSIVE RegExLoop(_, _, _, _)
RegExNext(text, regEx, match, matchedStrings) ==
    IF match.found
    THEN RegExLoop(text, regEx, match.lastIndex,
                   matchedStrings \o <<NL>> \o match.body)
    ELSE matchedStrings

RegExLoop(text, regEx, lastIndex, matchedStrings) ==
    RegExNext(text, regEx, Exec(text, regEx, lastIndex), matchedStrings)

\* getPlantUmlTextRegEx, lines 202-214.
RegExFirst(text, regEx, match) ==
    IF match.found
    THEN RegExLoop(text, regEx, match.lastIndex, match.body)
    ELSE <<>>

getPlantUmlTextRegEx(text, regEx) == RegExFirst(text, regEx, Exec(text, regEx, 1))

\* getPlantUmlTextFromSub, lines 182-185.
getPlantUmlTextFromSub(text, sub) == getPlantUmlTextRegEx(text, RegExSub(text, sub))

\* getPlantUmlTextFromId, lines 192-195.
getPlantUmlTextFromId(text, id) == getPlantUmlTextRegEx(text, RegExId(text, id))

\* Lines 226-232: the loop of getPlantUmlTextFromIndex.
RECURSIVE IndexLoop(_, _, _, _, _, _)
IndexLoop(text, regEx, match, idx, index, matchedStrings) ==
    IF match.found /\ idx < index
    THEN IF idx + 1 = index
         THEN IndexLoop(text, regEx, match, idx + 1, index,
                        matchedStrings \o match.body)
         ELSE IndexLoop(text, regEx, Exec(text, regEx, match.lastIndex),
                        idx + 1, index, matchedStrings)
    ELSE matchedStrings

\* The start value of idx, line 223.
IndexStart == -1

\* Lines 223-233, with regEx the expression of line 222.
IndexFrom(text, regEx, index) ==
    IndexLoop(text, regEx, Exec(text, regEx, 1), IndexStart, index, <<>>)

\* getPlantUmlTextFromIndex, lines 221-234.
getPlantUmlTextFromIndex(text, index) == IndexFrom(text, RegExBlock(text), index)

\* getPlantUmlTextOrFirstBlock, lines 240-248.
FirstBlockOr(text, match) == IF match.found THEN match.body ELSE text

getPlantUmlTextOrFirstBlock(text) ==
    FirstBlockOr(text, Exec(text, RegExBlock(text), 1))

\* The decimal digits and their values.
Digits == {"0", "1", "2", "3", "4", "5", "6", "7", "8", "9"}
DigitValue(d) == CHOOSE v \in 0..9 : ToString(v) = d

\* The value of a run of digits, most significant first.
RECURSIVE DigitsValue(_, _)
DigitsValue(ds, acc) ==
    IF Len(ds) = 0 THEN acc
    ELSE DigitsValue(Tail(ds), 10 * acc + DigitValue(ds[1]))

\* parseInt(sub, 10): leading white space, a sign and the longest run of
\* digits; isNaN when there is no digit.
RECURSIVE ParseInt(_)
ParseInt(sub) ==
    IF Len(sub) > 0 /\ sub[1] \in WhiteSpace THEN ParseInt(Tail(sub))
    ELSE LET signed == Len(sub) > 0 /\ sub[1] \in {"-", "+"}
             first == IF signed THEN 2 ELSE 1
             stop == Least({k \in first..Len(sub) : sub[k] \notin Digits},
                           Len(sub) + 1)
             value == DigitsValue(Slice(sub, first, stop - 1), 0)
         IN  [isNaN |-> stop = first,
              value |-> IF signed /\ sub[1] = "-" THEN 0 - value ELSE value]

\* Lines 104-118: the text a resolved directive expands, by its keyword and
\* its sub-selector.
\* Lines 109-114, with index == parseInt(sub, 10).
ExtractByIndexOrId(sub, index, text) ==
    IF index.isNaN
    THEN getPlantUmlTextFromId(text, sub)
    ELSE getPlantUmlTextFromIndex(text, index.value)

ExtractText(include, sub, text) ==
    IF sub # None /\ sub # <<>>
    THEN IF include = <<"include", "sub">>
         THEN getPlantUmlTextFromSub(text, sub)
         ELSE ExtractByIndexOrId(sub, ParseInt(sub), text)
    ELSE getPlantUmlTextOrFirstBlock(text)

----------------------------------------------------------------------------
(* The callback of diagramLines.map, lines 92-123, up to the recursive     *)
(* call: what one line does to the run.                                    *)

\* checkIncludeOnce, lines 255-262: whether it throws.
checkIncludeOnceThrows(filePath, once) == Includes(once, filePath)

\* checkIncludeOnce without the push of line 260.
checkIncludeOnceForgets(filePath, once) == once

\* checkIncludeOnce, lines 255-262: the list it leaves when it returns.
checkIncludeOnce(filePath, once) == Append(once, filePath)

IncludeOnceKeyword == <<"include", "_once">>

\* Line 99, "return line", inside line.replace(regExInclude, ...): the
\* returned line takes the place of the match and what follows the match
\* stays.
SkippedLine(line, matchEnd) == line \o From(line, matchEnd + 1)

\* Line 122, "return text", inside line.replace(regExInclude, ...).
ReplacedLine(line, matchEnd, text) == text \o From(line, matchEnd + 1)

\* What the callback does with one line: kind is "plain" (the line does not
\* match), "skip", "throw" or "expand"; text is the extracted text of an
\* expanded directive, once the includeOnce array it leaves.
CallbackOutcome(kind, err, text, url, result, once) ==
    [kind |-> kind, error |-> err, text |-> text, url |-> url,
     filePath |-> result.filePath, once |-> once, ops |-> result.ops]

\* Lines 98-118, with result == readPlantUmlInclude(url, ...) returned.
OnResult(include, url, sub, result, once) ==
    IF result.skip
    THEN CallbackOutcome("skip", "", <<>>, url, result, once)
    ELSE IF include = IncludeOnceKeyword
            /\ checkIncludeOnceThrows(result.filePath, once)
    THEN CallbackOutcome("throw", "once", <<>>, url, result, once)
    ELSE CallbackOutcome("expand", "", ExtractText(include, sub, result.text),
                         url, result,
                         IF include = IncludeOnceKeyword
                         THEN checkIncludeOnce(result.filePath, once)
                         ELSE once)

\* Lines 97-118, with result == readPlantUmlInclude(url, ...).
OnRead(include, url, sub, result, once) ==
    IF result.thrown # ""
    THEN CallbackOutcome("throw", result.thrown, <<>>, url, result, once)
    ELSE OnResult(include, url, sub, result, once)

\* Lines 93-118, with m the match of regExInclude on the line.
OnMatch(m, dirPath, once, stack, fs) ==
    IF ~m.matched
    THEN CallbackOutcome("plain", "", <<>>, <<>>,
                         ReadResult("", FALSE, <<>>, <<>>, <<>>), once)
    ELSE OnRead(m.include, UrlOf(m.ref), SubOf(m.ref),
                readPlantUmlInclude(UrlOf(m.ref), dirPath, stack, fs), once)

Callback(line, dirPath, once, stack, fs) ==
    OnMatch(MatchInclude(line), dirPath, once, stack, fs)

----------------------------------------------------------------------------
(* preprocessVegaLite, lines 9-59.  A JavaScript value is undefined, null, *)
(* a string or an object, an object being its properties in insertion     *)
(* order; a text is the sequence of its tokens.                            *)

\* The quote of a string literal of JSON.
DQuote == "\""

Undefined == [t |-> "undefined", s |-> <<>>, o |-> <<>>]
JsonNull == [t |-> "null", s |-> <<>>, o |-> <<>>]
Str(s) == [t |-> "string", s |-> s, o |-> <<>>]
Obj(o) == [t |-> "object", s |-> <<>>, o |-> o]

\* !value is false.
Truthy(value) ==
    \/ value.t = "object"
    \/ value.t = "string" /\ value.s # <<>>

\* value[key]: undefined for a property the value does not have.
Get(value, key) ==
    IF \E k \in 1..Len(value.o) : value.o[k][1] = key
    THEN value.o[CHOOSE k \in 1..Len(value.o) : value.o[k][1] = key][2]
    ELSE Undefined

\* value[key] = x: a property the object has keeps its place, a new one
\* comes last.
Set(value, key, x) ==
    IF \E k \in 1..Len(value.o) : value.o[k][1] = key
    THEN Obj([k \in 1..Len(value.o) |->
                 IF value.o[k][1] = key THEN <<key, x>> ELSE value.o[k]])
    ELSE Obj(Append(value.o, <<key, x>>))

\* The escapes of a string literal: a line feed is written \n.
RECURSIVE Escape(_)
Escape(s) ==
    IF s = <<>> THEN <<>>
    ELSE (IF s[1] = NL THEN <<Backslash, "n">> ELSE <<s[1]>>) \o Escape(Tail(s))

RECURSIVE Unescape(_)
Unescape(s) ==
    IF s = <<>> THEN <<>>
    ELSE IF Len(s) >= 2 /\ s[1] = Backslash /\ s[2] = "n"
         THEN <<NL>> \o Unescape(From(s, 3))
         ELSE <<s[1]>> \o Unescape(Tail(s))

\* The text of a value.  JSON.stringify writes the "compact" style: quoted
\* keys, no white space, no property whose value is undefined.  The
\* "relaxed" style is one JSON5 reads as well: bare keys, a space after the
\* colon and a comma after the last property.
RECURSIVE WriteValue(_, _), WriteMembers(_, _)
WriteValue(value, style) ==
    IF value.t = "null" THEN <<"null">>
    ELSE IF value.t = "string" THEN <<DQuote>> \o Escape(value.s) \o <<DQuote>>
    ELSE <<"{">> \o WriteMembers(value.o, style) \o <<"}">>

WriteMembers(o, style) ==
    IF o = <<>> THEN <<>>
    ELSE IF o[1][2].t = "undefined" THEN WriteMembers(Tail(o), style)
    ELSE LET rest == WriteMembers(Tail(o), style)
         IN  IF style = "relaxed"
             THEN <<o[1][1], ":", SP>> \o WriteValue(o[1][2], style)
                      \o <<",">> \o rest
             ELSE <<DQuote, o[1][1], DQuote, ":">> \o WriteValue(o[1][2], style)
                      \o (IF rest = <<>> THEN <<>> ELSE <<",">> \o rest)

\* JSON.stringify(value), line 58.
Stringify(value) == WriteValue(value, "compact")

\* What a reader of the text returns: whether it read a value, the value
\* and the place after it.
Parsed(ok, value, next) == [ok |-> ok, value |-> value, next |-> next]
ParseFail == Parsed(FALSE, Undefined, 0)

JsonPunctuation == {"{", "}", ":", ",", DQuote, SP, NL, CR, Backslash}

\* A string literal from its opening quote at i.
ParseString(text, i) ==
    LET close == Least({j \in (i + 1)..Len(text) : text[j] = DQuote}, 0)
    IN  IF i > Len(text) \/ text[i] # DQuote \/ close = 0 THEN ParseFail
        ELSE Parsed(TRUE, Str(Unescape(Slice(text, i + 1, close - 1))),
                    close + 1)

\* A key: a string literal or a bare name.
ParseKey(text, i) ==
    IF i > Len(text) THEN ParseFail
    ELSE IF text[i] = DQuote
    THEN LET q == ParseString(text, i)
         IN  IF q.ok /\ Len(q.value.s) = 1 THEN Parsed(TRUE, q.value.s[1], q.next)
             ELSE ParseFail
    ELSE IF text[i] \in JsonPunctuation THEN ParseFail
    ELSE Parsed(TRUE, text[i], i + 1)

\* The first place from i that holds no white space.
RECURSIVE SkipSpace(_, _)
SkipSpace(text, i) ==
    IF i <= Len(text) /\ text[i] \in WhiteSpace THEN SkipSpace(text, i + 1) ELSE i

\* A value at i; the properties of an object from i, after those of acc.
RECURSIVE ParseValue(_, _), ParseMembers(_, _, _)
ParseValue(text, i) ==
    IF i > Len(text) THEN ParseFail
    ELSE IF text[i] = "null" THEN Parsed(TRUE, JsonNull, i + 1)
    ELSE IF text[i] = DQuote THEN ParseString(text, i)
    ELSE IF text[i] = "{" THEN ParseMembers(text, i + 1, Obj(<<>>))
    ELSE ParseFail

ParseMembers(text, i, acc) ==
    IF i > Len(text) THEN ParseFail
    ELSE IF text[i] = "}" THEN Parsed(TRUE, acc, i + 1)
    ELSE LET key == ParseKey(text, i)
         IN  IF ~key.ok \/ key.next > Len(text) \/ text[key.next] # ":"
             THEN ParseFail
             ELSE LET val == ParseValue(text, SkipSpace(text, key.next + 1))
                  IN  IF ~val.ok \/ val.next > Len(text) THEN ParseFail
                      ELSE IF text[val.next] = ","
                      THEN ParseMembers(text, val.next + 1,
                                        Set(acc, key.value, val.value))
                      ELSE IF text[val.next] = "}"
                      THEN Parsed(TRUE, Set(acc, key.value, val.value),
                                  val.next + 1)
                      ELSE ParseFail

\* JSON5.parse(diagramText), line 13: the value of the text, a thrown
\* SyntaxError when the text is not that of one value.
JSON5Parse(text) ==
    LET p == ParseValue(text, 1)
    IN  IF p.ok /\ p.next = Len(text) + 1 THEN p ELSE ParseFail

\* /(?:\.([^.]+))?$/.exec(url)[1], line 49: the regular expression matches
\* at the first place that holds a "." with one or more characters other
\* than "." up to the end, and at the end when there is none.
UrlExtension(url) ==
    LET at == Least({k \in 1..Len(url) :
                        /\ url[k] = Dot
                        /\ k < Len(url)
                        /\ \A j \in (k + 1)..Len(url) : url[j] # Dot},
                    Len(url) + 1)
    IN  IF at > Len(url) THEN Undefined ELSE Str(From(url, at + 1))

\* The content formats of line 50.
FormatTypes == {<<"json">>, <<"csv">>, <<"tsv">>, <<"dsv">>, <<"topojson">>}

\* Lines 49-52 with the extension taken as it is.
VegaFormatTypeAny(url) ==
    IF UrlExtension(url).t = "string" THEN UrlExtension(url) ELSE Str(<<"json">>)

\* Lines 49-52: the type of a url.
VegaFormatType(url) ==
    IF UrlExtension(url).t = "string" /\ UrlExtension(url).s \in FormatTypes
    THEN UrlExtension(url)
    ELSE Str(<<"json">>)

\* Lines 44-58: the text returned once the file was read.
VegaInlined(diagramObject, values) ==
    LET data == Set(Get(diagramObject, "data"), "values", Str(values))
        url == Get(data, "url").s
        formatted ==
            IF ~Truthy(Get(data, "format"))
            THEN Set(data, "format", Obj(<<<<"type", VegaFormatType(url)>>>>))
            ELSE data
    IN  Stringify(Set(diagramObject, "data", Set(formatted, "url", Undefined)))

\* What a call of preprocessVegaLite does: "return" or "throw", the text
\* returned, the error thrown and the calls of the Content Source.
VegaOutcome(kind, text, err, ops) ==
    [kind |-> kind, text |-> text, error |-> err, ops |-> ops]

\* Lines 32-42: the read of data.url and what follows it.
VegaRead(diagramText, diagramObject, url, fs) ==
    IF VfsReads(fs, url)
    THEN VegaOutcome("return", VegaInlined(diagramObject, VfsRead(fs, url)), "",
                     <<Op("read", url)>>)
    ELSE IF isRemoteUrl(url)
    THEN VegaOutcome("return", diagramText, "", <<Op("read", url)>>)
    ELSE VegaOutcome("throw", None, "read", <<Op("read", url)>>)

\* Lines 10-26 and the rest of the function.
VegaLite(diagramText, fs) ==
    LET parsed == JSON5Parse(diagramText)
        diagramObject == parsed.value
    IN  IF ~parsed.ok THEN VegaOutcome("throw", None, "parse", <<>>)
        ELSE IF \/ ~Truthy(diagramObject)
                \/ ~Truthy(Get(diagramObject, "data"))
                \/ ~Truthy(Get(Get(diagramObject, "data"), "url"))
        THEN VegaOutcome("return", diagramText, "", <<>>)
        ELSE VegaRead(diagramText, diagramObject,
                      Get(Get(diagramObject, "data"), "url").s, fs)

----------------------------------------------------------------------------
(* The documents and Content Sources of the model.                         *)

\* The longest root document, in segments.
MaxSegments == 2

PathA == <<"a">>
PathB == <<"b">>
PathDA == <<"d", Slash, "a">>
PathDB == <<"d", Slash, "b">>
PathC == <<"c">>
PathMissing == <<"m">>
UrlR == <<"http:", Slash, Slash, "h", Slash, "r">>
Library == <<"<", "s", ">">>

\* A directive line: "!" keyword " " reference.
Directive(keyword, ref) == <<Bang>> \o keyword \o <<SP>> \o ref

Include(ref) == Directive(<<"include">>, ref)
IncludeOnce(ref) == Directive(IncludeOnceKeyword, ref)

\* Every document of 1..n of the segments, joined by "\n".
DocsOf(segments, n) ==
    UNION {{JoinLines(f) : f \in [1..k -> segments]} : k \in 1..n}

\* The segments of the documents that exercise the include engine.
IncludeSegments ==
    {<<"x">>, Include(PathA), Include(PathB), IncludeOnce(PathA),
     Include(PathDB), Include(UrlR), Include(Library)}

\* The Content Sources of the documents above: every choice of a text (or
\* of a failing read, None) for each path.
IncludeSources ==
    [a : {None, <<"p">>, Include(PathB), Include(PathDB)},
     b : {Include(PathA), IncludeOnce(PathA)},
     da : {None, <<"q">>},
     db : {Include(PathA), Include(PathB)},
     r : {None, <<"w">>, Include(UrlR)}]

\* The documents that exercise the include engine.
IncludeDocs == DocsOf(IncludeSegments, MaxSegments)

\* The Content Source of one choice.
SourceOf(c) ==
    (PathA :> c.a) @@ (PathB :> c.b) @@ (PathDA :> c.da) @@ (PathDB :> c.db)
        @@ (UrlR :> c.r)

\* The longest root document of the text suite, in segments.
MaxTextSegments == 2

\* "./<s>": a local reference to a file whose path starts with "<".
LibraryFile == <<Dot, Slash>> \o Library

\* The segments of the documents that exercise comments, white space and
\* skipped directives.  PathC is referenced only where comment removal
\* takes the reference away: inside a block comment, and on a line with
\* two "'" that a line end follows.  The same comment after PathA ends the
\* segment, so it is removed only when another segment follows.
TextSegments ==
    {<<>>, <<"x">>, <<SP, "x", SP, SP>>, <<"x", CR>>,
     <<Slash, Quote, "x", Quote, Slash>>,
     <<Slash, Quote, "x", NL>> \o Include(PathC) \o <<NL, Quote, Slash, "y">>,
     Include(PathC) \o <<SP, Quote, "x", Quote, NL, "y">>,
     Include(PathA) \o <<SP, Quote, "x", Quote>>,
     <<Bang, Slash, Quote, "x", Quote, Slash, "include", SP>> \o PathA,
     Include(PathA), Include(PathMissing),
     Include(Library), Include(Library) \o <<SP, "x", CR>>,
     Include(LibraryFile),
     Include(UrlR), Include(UrlR) \o <<SP, CR>>}

\* The Content Sources of the text suite.
TextSources ==
    [a : {<<"p">>,
          <<Slash, Quote, NL>> \o Include(PathC) \o <<NL, Quote, Slash, "p">>},
     r : {None, <<"w">>}]

\* The documents of the text suite.
TextDocs == DocsOf(TextSegments, MaxTextSegments)

\* The Content Source of one choice of the text suite.
TextSourceOf(c) ==
    (PathA :> c.a) @@ (PathC :> <<"z">>) @@ (UrlR :> c.r)
        @@ (Library :> Include(Library))

\* The longest root document of the calls suite, in segments.
MaxCallSegments == 2

\* The documents of the calls suite, for runs of several top-level calls.
CallSegments ==
    {<<"x">>, IncludeOnce(PathA), Include(PathB), Include(Library),
     IncludeOnce(Library), IncludeOnce(UrlR)}

CallDocs == DocsOf(CallSegments, MaxCallSegments)

\* The Content Sources of the calls suite; none has UrlR, whose read fails.
CallSources ==
    [a : {<<"p">>, Include(PathB)},
     b : {IncludeOnce(PathA), Include(PathMissing)}]

CallSourceOf(c) == (PathA :> c.a) @@ (PathB :> c.b)

\* No call before this one.
NoCall == [status |-> "none", once |-> <<>>, stack |-> <<>>]

\* The longest file of the extract suite, in pieces.
MaxPieces == 3

\* A piece of a file: a block ("@startuml"), a block with an id, a
\* sub-block ("!startsub") or a line, with the lines between its markers.
Piece(kind, name, lines) == [kind |-> kind, name |-> name, lines |-> lines]

\* The pieces of the files of the extract suite: blocks of no, one and two
\* lines, blocks with ids, sub-blocks of equal and of different names.
ExtractPieces ==
    {Piece("block", <<>>, <<>>), Piece("block", <<>>, <<<<"x">>>>),
     Piece("block", <<>>, <<<<"y">>, <<>>, <<"z">>>>),
     Piece("id", <<"I">>, <<<<"x">>>>), Piece("id", <<"I">>, <<<<"y">>>>),
     Piece("id", <<"J">>, <<<<"z">>>>),
     Piece("sub", <<"S">>, <<>>), Piece("sub", <<"S">>, <<<<"x">>>>),
     Piece("sub", <<"S">>, <<<<"y">>, <<"z">>>>),
     Piece("sub", <<"T">>, <<<<"z">>>>), Piece("sub", <<"S", "T">>, <<<<"w">>>>),
     Piece("line", <<>>, <<<<"v">>>>)}

\* No file: the value of pieces outside the extract suite.
NoPieces == [eol |-> <<NL>>, parts |-> <<>>]

\* The files of the extract suite: their line end and their pieces.
ExtractFiles ==
    [eol : {<<NL>>, <<CR, NL>>},
     parts : UNION {[1..k -> ExtractPieces] : k \in 1..MaxPieces}]

\* The texts of texts, sep between them.
RECURSIVE JoinWith(_, _)
JoinWith(texts, sep) ==
    IF Len(texts) = 0 THEN <<>>
    ELSE IF Len(texts) = 1 THEN texts[1]
    ELSE texts[1] \o sep \o JoinWith(Tail(texts), sep)

Opening(piece) ==
    IF piece.kind = "block" THEN <<"@startuml">>
    ELSE IF piece.kind = "id"
    THEN <<"@startuml", "(id=">> \o piece.name \o <<")">>
    ELSE <<Bang, "startsub", SP>> \o piece.name

Closing(piece) ==
    IF piece.kind = "sub" THEN <<Bang, "endsub">> ELSE <<"@enduml">>

\* The text of a piece: its markers on lines of their own around its lines.
PieceText(piece, eol) ==
    IF piece.kind = "line" THEN piece.lines[1]
    ELSE JoinWith(<<Opening(piece)>> \o piece.lines \o <<Closing(piece)>>, eol)

\* The text of a file.
FileText(file) ==
    JoinWith([k \in 1..Len(file.parts) |-> PieceText(file.parts[k], file.eol)],
             file.eol)

\* The directives of the extract suite: each kind with no sub-selector, an
\* index, an id or a name, and a name with a ".".
Selectors ==
    {<<>>, <<"0">>, <<"1">>, <<"2">>, <<"3">>, <<"-", "1">>, <<"I">>, <<"J">>,
     <<"S">>, <<"T">>, <<"S", Dot>>}

ExtractDirectives ==
    {Directive(keyword, IF sel = <<>> THEN PathA ELSE PathA \o <<Bang>> \o sel) :
        keyword \in {<<"include">>, <<"include", "sub">>}, sel \in Selectors}

----------------------------------------------------------------------------
(* The view specifications and Content Sources of the Vega-Lite suite.     *)

\* The references of data.url: local and remote, with an extension that is
\* a content format, one that is none, a "." in a directory and no
\* extension.
VegaUrls ==
    {<<"data", Dot, "csv">>, <<"d", Slash, "data", Dot, "tsv">>,
     <<"data", Dot, "json">>, <<"data", Dot, "json", Dot, "dsv">>,
     <<"data", Dot, "txt">>, <<"data">>, <<"data", Dot>>,
     <<"d", Dot, "csv", Slash, "data">>,
     <<"http:", Slash, Slash, "h", Slash, "data", Dot, "topojson">>,
     <<"http:", Slash, Slash, "h", Slash, "data">>}

\* The text of a data file.
VegaContent == <<"x", ",", "y", NL, "1", ",", "2">>

\* The Content Sources: every file, no file, only the remote ones and only
\* the local ones can be read.
VegaSources ==
    {[u \in VegaUrls |-> IF u \in R THEN VegaContent ELSE None] :
        R \in {VegaUrls, {}, {u \in VegaUrls : isRemoteUrl(u)},
               {u \in VegaUrls : ~isRemoteUrl(u)}}}

\* What follows url in a data object: nothing, a format of null, a format
\* with a type.
VegaFormats ==
    {<<>>, <<<<"format", JsonNull>>>>,
     <<<<"format", Obj(<<<<"type", Str(<<"tsv">>)>>>>)>>>>}

\* The values of data: without a url, with an empty one, with a url and
\* with values before the url.
VegaData ==
    {JsonNull, Str(<<"x">>), Obj(<<>>), Obj(<<<<"values", Str(<<"v">>)>>>>),
     Obj(<<<<"url", Str(<<>>)>>>>), Obj(<<<<"url", JsonNull>>>>)}
    \cup {Obj(<<<<"url", Str(u)>>>> \o f) : u \in VegaUrls, f \in VegaFormats}
    \cup {Obj(<<<<"values", Str(<<"v">>)>>, <<"url", Str(u)>>>>) : u \in VegaUrls}

VegaViews ==
    {JsonNull, Str(<<"x">>), Obj(<<<<"mark", Str(<<"bar">>)>>>>)}
    \cup {Obj(<<<<"mark", Str(<<"bar">>)>>, <<"data", d>>>>) : d \in VegaData}

\* The texts a caller may pass: the views in both styles and texts that
\* are not those of a value.
VegaTexts ==
    {WriteValue(v, style) : v \in VegaViews, style \in {"compact", "relaxed"}}
    \cup {<<>>, <<"{">>, <<"mark">>, <<"{", "data", ":", "}">>,
          <<"{", "data", ":", "null", "}", "}">>}

----------------------------------------------------------------------------
(* The state of a run.                                                     *)

VARIABLES
    vfs,            \* the Content Source, context.vfs
    pieces,         \* what the file of the extract suite is written with
    previous,       \* in the calls suite, what the call before this one left
    suite,          \* which documents a caller may pass: see Docs
    status,         \* "idle", "running", "done" (returned) or "error" (threw)
    diagramText,    \* the argument of the running or last top-level call
    frames,         \* the active calls of preprocessPlantUmlIncludes
    includeOnce,    \* the includeOnce array of the call
    includeStack,   \* the includeStack array of the call
    result,         \* the text the last top-level call returned
    error,          \* the error the last top-level call threw
    events          \* the directives handled in the call, in order

vars == <<vfs, pieces, previous, suite, status, diagramText, frames, includeOnce,
          includeStack, result, error, events>>

\* A call of preprocessPlantUmlIncludes(text, dirPath, ...): lines 86-89
\* leave the lines to map; done holds the lines mapped so far.
Frame(text, dirPath) ==
    [lines |-> DiagramLines(text), dirPath |-> dirPath, done |-> <<>>]

\* The documents a caller may pass.
Docs ==
    IF suite = "include" THEN IncludeDocs
    ELSE IF suite = "calls" THEN CallDocs
    ELSE TextDocs

Top == frames[Len(frames)]
Scanning == status = "running" /\ Len(Top.done) < Len(Top.lines)
Returning == status = "running" /\ Len(Top.done) = Len(Top.lines)
Line == Top.lines[Len(Top.done) + 1]
Outcome == Callback(Line, Top.dirPath, includeOnce, includeStack, vfs)

\* The line of the calling frame whose callback made the top call.
CallerLine ==
    frames[Len(frames) - 1].lines[Len(frames[Len(frames) - 1].done) + 1]

\* The record of one handled directive: the line and the state it was
\* handled in, what the callback did and the line it returned (None when it
\* threw or handed the text to the recursive call).
Event(o, emitted) ==
    [line |-> Line, include |-> MatchInclude(Line).include, url |-> o.url,
     dirPath |-> Top.dirPath, filePath |-> o.filePath, kind |-> o.kind,
     error |-> o.error, ops |-> o.ops, stack |-> includeStack,
     once |-> includeOnce, emitted |-> emitted]

\* Emit with the line trimmed.
EmitTrimmed(fs, line) ==
    [fs EXCEPT ![Len(fs)].done = Append(fs[Len(fs)].done, Trim(line))]

\* frames with line appended to the done lines of its top.
Emit(fs, line) ==
    [fs EXCEPT ![Len(fs)].done = Append(fs[Len(fs)].done, line)]

Init ==
    /\ vfs \in {SourceOf(c) : c \in IncludeSources}
    /\ pieces = NoPieces
    /\ previous = NoCall
    /\ suite = "include"
    /\ status = "idle"
    /\ diagramText = None
    /\ frames = <<>>
    /\ includeOnce = <<>>
    /\ includeStack = <<>>
    /\ result = None
    /\ error = ""
    /\ events = <<>>

\* preprocessPlantUML with the two arrays of lines 70-71 kept between calls.
preprocessPlantUMLShared(text) ==
    /\ status = "idle"
    /\ status' = "running"
    /\ diagramText' = text
    /\ frames' = <<Frame(text, <<Dot>>)>>
    /\ result' = None
    /\ error' = ""
    /\ events' = <<>>
    /\ UNCHANGED <<vfs, pieces, previous, suite, includeOnce, includeStack>>

\* preprocessPlantUML, lines 66-74, up to the first line of the document.
preprocessPlantUML(text) ==
    /\ status = "idle"
    /\ status' = "running"
    /\ diagramText' = text
    /\ includeOnce' = <<>>
    /\ includeStack' = <<>>
    /\ frames' = <<Frame(text, <<Dot>>)>>
    /\ result' = None
    /\ error' = ""
    /\ events' = <<>>
    /\ UNCHANGED <<vfs, pieces, previous, suite>>

\* Lines 90-92: a line that regExInclude does not match is kept.
EmitLine ==
    /\ Scanning
    /\ ~MatchInclude(Line).matched
    /\ frames' = Emit(frames, Line)
    /\ UNCHANGED <<vfs, pieces, previous, suite, status, diagramText, includeOnce,
                   includeStack,                   result, error, events>>

\* Lines 97-99: a skipped directive returns the line.
Skip(o, emitted) ==
    /\ o.kind = "skip"
    /\ frames' = Emit(frames, emitted)
    /\ events' = Append(events, Event(o, emitted))
    /\ UNCHANGED <<vfs, pieces, previous, suite, status, diagramText, includeOnce,
                   includeStack,                   result, error>>

\* Lines 146, 163, 169 and 258: an error thrown in the callback leaves
\* every active call; preprocessPlantUML throws it.
Throw(o) ==
    /\ o.kind = "throw"
    /\ status' = "error"
    /\ error' = o.error
    /\ frames' = <<>>
    /\ events' = Append(events, Event(o, None))
    /\ UNCHANGED <<vfs, pieces, previous, suite, diagramText, includeOnce, includeStack,
                   result>>

\* Expand with the recursive call given the directory of its caller.
ExpandSameDir(o) ==
    /\ o.kind = "expand"
    /\ includeOnce' = o.once
    /\ includeStack' = Append(includeStack, o.filePath)
    /\ frames' = Append(frames, Frame(o.text, Top.dirPath))
    /\ events' = Append(events, Event(o, None))
    /\ UNCHANGED <<vfs, pieces, previous, suite, status, diagramText, result, error>>

\* Lines 101-120: the directive is resolved, its text extracted, its path
\* pushed and the text handed to the recursive call.
Expand(o) ==
    /\ o.kind = "expand"
    /\ includeOnce' = o.once
    /\ includeStack' = Append(includeStack, o.filePath)
    /\ frames' = Append(frames, Frame(o.text, PathDirname(o.filePath)))
    /\ events' = Append(events, Event(o, None))
    /\ UNCHANGED <<vfs, pieces, previous, suite, status, diagramText, result, error>>

SkipInclude ==
    /\ Scanning
    /\ MatchInclude(Line).matched
    /\ Skip(Outcome, SkippedLine(Line, MatchInclude(Line).matchEnd))

ThrowInclude ==
    /\ Scanning
    /\ MatchInclude(Line).matched
    /\ Throw(Outcome)

ExpandInclude ==
    /\ Scanning
    /\ MatchInclude(Line).matched
    /\ Expand(Outcome)

\* ReturnInclude without the pop of line 121.
ReturnIncludeNoPop ==
    /\ Returning
    /\ Len(frames) > 1
    /\ frames' = Emit(Slice(frames, 1, Len(frames) - 1),
                      ReplacedLine(CallerLine, MatchInclude(CallerLine).matchEnd,
                                   JoinLines(Top.done)))
    /\ UNCHANGED <<vfs, pieces, previous, suite, status, diagramText, includeOnce,
                   includeStack, result, error, events>>

\* Lines 126 and 121-122: the recursive call returns its lines joined, the
\* path is popped and the text replaces the match in the including line.
ReturnInclude ==
    /\ Returning
    /\ Len(frames) > 1
    /\ frames' = Emit(Slice(frames, 1, Len(frames) - 1),
                      ReplacedLine(CallerLine, MatchInclude(CallerLine).matchEnd,
                                   JoinLines(Top.done)))
    /\ includeStack' = Slice(includeStack, 1, Len(includeStack) - 1)
    /\ UNCHANGED <<vfs, pieces, previous, suite, status, diagramText, includeOnce, result,
                   error,                   events>>

\* Lines 126 and 73: the outermost call returns the expanded document.
ReturnTop ==
    /\ Returning
    /\ Len(frames) = 1
    /\ result' = JoinLines(Top.done)
    /\ status' = "done"
    /\ frames' = <<>>
    /\ UNCHANGED <<vfs, pieces, previous, suite, diagramText, includeOnce, includeStack,
                   error,                   events>>

\* The caller has the text or the error of the call; the arrays of the call
\* are garbage from here on.
Finish ==
    /\ status \in {"done", "error"}
    /\ status' = "idle"
    /\ diagramText' = None
    /\ result' = None
    /\ error' = ""
    /\ events' = <<>>
    /\ previous' = IF suite = "calls"
                   THEN [status |-> status, once |-> includeOnce,
                         stack |-> includeStack]
                   ELSE previous
    /\ UNCHANGED <<vfs, pieces, suite, frames, includeOnce, includeStack>>

Step ==
    \/ EmitLine
    \/ SkipInclude
    \/ ThrowInclude
    \/ ExpandInclude
    \/ ReturnInclude
    \/ ReturnTop

Call == \E text \in Docs : preprocessPlantUML(text)

Next == Call \/ Step \/ Finish

Spec == Init /\ [][Next]_vars

\* The runs of the text suite.
TextInit ==
    /\ vfs \in {TextSourceOf(c) : c \in TextSources}
    /\ pieces = NoPieces
    /\ previous = NoCall
    /\ suite = "text"
    /\ status = "idle"
    /\ diagramText = None
    /\ frames = <<>>
    /\ includeOnce = <<>>
    /\ includeStack = <<>>
    /\ result = None
    /\ error = ""
    /\ events = <<>>

TextSpec == TextInit /\ [][Next]_vars

\* The runs of the calls suite: top-level calls one after another, each
\* with what the call before it left.
CallsInit ==
    /\ vfs \in {CallSourceOf(c) : c \in CallSources}
    /\ pieces = NoPieces
    /\ previous = NoCall
    /\ suite = "calls"
    /\ status = "idle"
    /\ diagramText = None
    /\ frames = <<>>
    /\ includeOnce = <<>>
    /\ includeStack = <<>>
    /\ result = None
    /\ error = ""
    /\ events = <<>>

CallsSpec == CallsInit /\ [][Next]_vars

\* The runs of the extract suite: the Content Source has one file, and the
\* callback's extraction (lines 93-118) is applied to it for a directive.
ExtractInit ==
    /\ pieces \in ExtractFiles
    /\ previous = NoCall
    /\ vfs = (PathA :> FileText(pieces))
    /\ suite = "extract"
    /\ status = "idle"
    /\ diagramText = None
    /\ frames = <<>>
    /\ includeOnce = <<>>
    /\ includeStack = <<>>
    /\ result = None
    /\ error = ""
    /\ events = <<>>

\* Lines 93-96 and 104-118 for a directive line whose file was read.
Extracted(m, fs) ==
    ExtractText(m.include, SubOf(m.ref), VfsRead(fs, UrlOf(m.ref)))

ExtractInclude(line) ==
    /\ status = "idle"
    /\ status' = "done"
    /\ diagramText' = line
    /\ result' = Extracted(MatchInclude(line), vfs)
    /\ UNCHANGED <<vfs, pieces, previous, suite, frames, includeOnce, includeStack, error,
                   events>>

ExtractNext ==
    \/ \E line \in ExtractDirectives : ExtractInclude(line)
    \/ Finish

ExtractSpec == ExtractInit /\ [][ExtractNext]_vars

\* preprocessVegaLite, lines 9-59.
preprocessVegaLite(text) ==
    /\ status = "idle"
    /\ status' = (IF VegaLite(text, vfs).kind = "throw" THEN "error" ELSE "done")
    /\ diagramText' = text
    /\ result' = VegaLite(text, vfs).text
    /\ error' = VegaLite(text, vfs).error
    /\ events' = VegaLite(text, vfs).ops
    /\ UNCHANGED <<vfs, pieces, previous, suite, frames, includeOnce, includeStack>>

\* The runs of the Vega-Lite suite.
VegaInit ==
    /\ vfs \in VegaSources
    /\ pieces = NoPieces
    /\ previous = NoCall
    /\ suite = "vega"
    /\ status = "idle"
    /\ diagramText = None
    /\ frames = <<>>
    /\ includeOnce = <<>>
    /\ includeStack = <<>>
    /\ result = None
    /\ error = ""
    /\ events = <<>>

VegaNext ==
    \/ \E text \in VegaTexts : preprocessVegaLite(text)
    \/ Finish

VegaSpec == VegaInit /\ [][VegaNext]_vars

----------------------------------------------------------------------------
(* What the properties below speak of.                                     *)

IsLibrary(url) == StartsWithAt(url, <<"<">>, 1)

\* The path a reference denotes: the url itself for a remote reference,
\* join(dirPath, url) when the Content Source has it and url otherwise.
Target(url, dirPath) ==
    IF isRemoteUrl(url) THEN url
    ELSE IF VfsExists(vfs, PathJoin(dirPath, url)) THEN PathJoin(dirPath, url)
    ELSE url

HasRead(ops) == \E k \in 1..Len(ops) : ops[k].op = "read"

\* The directive was resolved: its reference read, no cycle found.
Resolved(e) ==
    e.kind = "expand" \/ (e.kind = "throw" /\ e.error = "once")

Terminated == status \in {"done", "error"}

\* The paths the Content Source can resolve.
ResolvablePaths == {path \in DOMAIN vfs : VfsReads(vfs, path)}

\* The depth of the recursion: the calls of preprocessPlantUmlIncludes
\* below the outermost one.
Depth == IF Len(frames) = 0 THEN 0 ELSE Len(frames) - 1

\* What is left to do in each active call, outermost first: twice the lines
\* not yet mapped, less one in a call that waits for a recursive call.
Variant ==
    [k \in 1..Len(frames) |->
        2 * (Len(frames[k].lines) - Len(frames[k].done))
            - (IF k < Len(frames) THEN 1 ELSE 0)]

\* The lexicographic order: a is less at the first place where they differ.
LexLess(a, b) ==
    \E k \in 1..Len(b) :
        /\ k <= Len(a)
        /\ a[k] < b[k]
        /\ \A j \in 1..(k - 1) : a[j] = b[j]

\* A step of the engine is possible: there is a line to map or a call to
\* return from.
CanStep == Len(frames) >= 1 /\ Len(Top.done) <= Len(Top.lines)

\* The reference of the directive on the line being mapped.
LineUrl == UrlOf(MatchInclude(Line).ref)

\* The line being mapped is a directive.
AtDirective == Scanning /\ MatchInclude(Line).matched

\* The line being mapped is a directive with a remote reference that is read
\* and whose read fails.
RemoteReadFails ==
    /\ AtDirective
    /\ ~IsLibrary(LineUrl)
    /\ ~Includes(includeStack, LineUrl)
    /\ isRemoteUrl(LineUrl)
    /\ ~VfsReads(vfs, LineUrl)

\* None of the lines is an include directive.
NoDirective(lines) ==
    \A k \in 1..Len(lines) : ~MatchInclude(lines[k]).matched

\* s occurs in text.
Mentions(text, s) == \E k \in 1..Len(text) : StartsWithAt(text, s, k)

\* The Content Source was asked about path.
Asked(ops, path) == \E k \in 1..Len(ops) : ops[k].path = path

----------------------------------------------------------------------------
\* C1: a directive whose reference denotes a path that is on the inclusion
\* stack (a file being expanded) makes the call fail with a cycle error; the
\* file is not read again and nothing is expanded after it.
C1_CycleFails ==
    \A i \in 1..Len(events) :
        (/\ ~IsLibrary(events[i].url)
         /\ Includes(events[i].stack, Target(events[i].url, events[i].dirPath)))
        => /\ events[i].kind = "throw"
           /\ events[i].error = "cycle"
           /\ ~HasRead(events[i].ops)
           /\ i = Len(events)
           /\ status = "error"
           /\ error = "cycle"

\* A call failed on a reference, two levels down, that resolves to a file
\* being expanded although the reference as written is not on the stack.
C1_Witness ==
    /\ status = "error"
    /\ error = "cycle"
    /\ Len(events[Len(events)].stack) >= 2
    /\ ~Includes(events[Len(events)].stack, events[Len(events)].url)
    /\ Includes(events[Len(events)].stack, events[Len(events)].filePath)

\* C2: every started call ends, returning or throwing, and the recursion is
\* never deeper than the number of paths the Content Source resolves.  The
\* engine is synchronous, so a call ends when it cannot run forever: a
\* running call can always take a step, and every step either ends the call
\* or lowers Variant, which is well-founded because the depth is bounded.
C2_Terminates ==
    /\ [](Depth <= Cardinality(ResolvablePaths))
    /\ [](Len(includeStack) <= Cardinality(ResolvablePaths))
    /\ [](status = "running" => CanStep)
    /\ [][Step => (Terminated' \/ LexLess(Variant', Variant))]_vars

\* A call over files that include each other ended, at the greatest depth
\* the Content Source allows.
C2_Witness ==
    /\ status = "error"
    /\ error = "cycle"
    /\ Len(includeStack) = Cardinality(ResolvablePaths)
    /\ Len(includeStack) >= 3

\* C3: an include_once directive that resolves to the path of an earlier,
\* expanded include_once directive of the same call fails as a duplicate, at
\* whatever depth either stands; a resolved directive of another kind is
\* expanded however often its path was included before.
C3_IncludeOnce ==
    /\ \A i \in 1..Len(events) : \A j \in (i + 1)..Len(events) :
          (/\ events[i].include = IncludeOnceKeyword
           /\ events[j].include = IncludeOnceKeyword
           /\ events[i].kind = "expand"
           /\ Resolved(events[j])
           /\ events[i].filePath = events[j].filePath)
          => /\ events[j].kind = "throw"
             /\ events[j].error = "once"
             /\ status = "error"
             /\ error = "once"
    /\ \A j \in 1..Len(events) :
          (events[j].include # IncludeOnceKeyword /\ Resolved(events[j]))
          => events[j].kind = "expand"
    /\ \A j \in 1..Len(events) :
          (/\ events[j].include = IncludeOnceKeyword
           /\ Resolved(events[j])
           /\ \A i \in 1..(j - 1) :
                 ~(/\ events[i].include = IncludeOnceKeyword
                   /\ events[i].kind = "expand"
                   /\ events[i].filePath = events[j].filePath))
          => events[j].kind = "expand"

\* A duplicate include_once failed one level below the first occurrence,
\* after the same file was expanded twice by sibling plain includes.
C3_Witness ==
    /\ status = "error"
    /\ error = "once"
    /\ \E i \in 1..Len(events) :
          /\ events[i].include = IncludeOnceKeyword
          /\ events[i].kind = "expand"
          /\ events[i].filePath = events[Len(events)].filePath
          /\ Len(events[i].stack) < Len(events[Len(events)].stack)

\* Two sibling plain includes of one file were both expanded and the call
\* returned.
C3_WitnessPlain ==
    /\ status = "done"
    /\ \E i \in 1..Len(events) : \E j \in (i + 1)..Len(events) :
          /\ events[i].include = <<"include">>
          /\ events[j].include = <<"include">>
          /\ events[i].kind = "expand"
          /\ events[j].kind = "expand"
          /\ events[i].filePath = events[j].filePath
          /\ events[i].stack = events[j].stack

\* C4: when the read of a remote reference fails, the step that handles the
\* directive leaves the call running, emits the directive line unchanged,
\* pushes nothing on the inclusion stack and leaves the remaining lines of
\* the call to be mapped.
C4_RemoteFailureSoft ==
    [][RemoteReadFails =>
          /\ status' = "running"
          /\ frames' = Emit(frames, Line)
          /\ includeStack' = includeStack]_vars

\* C5: a failed read of a local reference, a cycle and a duplicate
\* include_once each end the call at once, at whatever depth: the call
\* throws, returns no text, and the failing directive is the last one handled.
C5_HardFailureAborts ==
    /\ \A i \in 1..Len(events) :
          events[i].kind = "throw"
          => /\ i = Len(events)
             /\ status = "error"
             /\ error = events[i].error
             /\ result = None
             /\ frames = <<>>
    /\ \A i \in 1..Len(events) :
          (/\ ~IsLibrary(events[i].url)
           /\ ~isRemoteUrl(events[i].url)
           /\ ~Includes(events[i].stack, events[i].url)
           /\ ~Includes(events[i].stack,
                        Target(events[i].url, events[i].dirPath))
           /\ ~VfsReads(vfs, Target(events[i].url, events[i].dirPath)))
          => /\ events[i].kind = "throw"
             /\ events[i].error = "read"
    /\ status = "error" => (result = None /\ ~ENABLED Step)
    /\ status = "done" =>
          \A i \in 1..Len(events) : events[i].kind # "throw"

\* A read of a local file failed one level down while the root document had
\* a directive left to handle.
C5_Witness ==
    /\ status = "error"
    /\ error = "read"
    /\ Len(events[Len(events)].stack) >= 1
    /\ Len(SplitLines(diagramText)) = 2
    /\ MatchInclude(SplitLines(diagramText)[2]).matched
    /\ \A i \in 1..Len(events) : events[i].line # SplitLines(diagramText)[2]

\* C6: a directive whose reference starts with "<" makes no call of the
\* Content Source, its line is emitted unchanged and no error is raised,
\* whatever the inclusion stack holds.
C6_LibrarySkipped ==
    [][(AtDirective /\ IsLibrary(LineUrl)) =>
          /\ status' = "running"
          /\ error' = ""
          /\ frames' = Emit(frames, Line)
          /\ Len(events') = Len(events) + 1
          /\ events'[Len(events')].ops = <<>>]_vars

\* C7: comments are removed before the lines are matched.  In the text suite
\* PathC is referenced only inside comments, of root documents and of
\* included files: no directive is handled for it, the Content Source is
\* never asked about it and its text is in no returned document.
C7_CommentedNeverResolved ==
    suite = "text" =>
        /\ \A i \in 1..Len(events) :
              /\ events[i].url # PathC
              /\ events[i].filePath # PathC
              /\ ~Asked(events[i].ops, PathC)
        /\ status = "done" => ~Mentions(result, vfs[PathC])

\* A call returned for a document with a directive to PathC inside a comment
\* that spans lines, after it expanded a file with such a comment of its own.
C7_Witness ==
    /\ status = "done"
    /\ Mentions(diagramText, <<NL>> \o Include(PathC) \o <<NL>>)
    /\ \E i \in 1..Len(events) :
          /\ events[i].kind = "expand"
          /\ Mentions(vfs[events[i].filePath], Include(PathC))
    /\ Mentions(result, <<"p">>)

\* C8 as stated: a document none of whose lines is an include directive is
\* returned unchanged, and the Content Source is not called.
C8_Unchanged ==
    (Terminated /\ NoDirective(SplitLines(diagramText)))
    => /\ status = "done"
       /\ result = diagramText
       /\ events = <<>>

\* C8, amended: a document none of whose lines is an include directive once
\* its comments are removed is returned with the comments removed and
\* unchanged otherwise, and the Content Source is not called.
C8_StrippedUnchanged ==
    (Terminated /\ NoDirective(DiagramLines(diagramText)))
    => /\ status = "done"
       /\ result = StripComments(diagramText)
       /\ events = <<>>

\* A call returned a document without directives that lost a comment and
\* kept its white space.
C8_Witness ==
    /\ status = "done"
    /\ NoDirective(DiagramLines(diagramText))
    /\ result # diagramText
    /\ Mentions(result, <<SP, "x", SP, SP>>)

\* The keyword and the sub-selector of the directive of the extract suite.
Keyword == MatchInclude(diagramText).include
Selector == SubOf(MatchInclude(diagramText).ref)

\* The lines of a piece as the file has them.
Body(piece) == JoinWith(piece.lines, pieces.eol)

\* The pieces of the file that are of the kind and, for a kind with names,
\* have the name.
IsKind(piece, kind) == piece.kind = kind
PiecesOf(kind) == SelectSeq(pieces.parts, LAMBDA piece : IsKind(piece, kind))
Named(kind, name) ==
    SelectSeq(pieces.parts,
              LAMBDA piece : IsKind(piece, kind) /\ piece.name = name)

\* The directive of the extract suite selects a block by its index.
ByIndex ==
    /\ status = "done"
    /\ Keyword # <<"include", "sub">>
    /\ Selector # None
    /\ ~ParseInt(Selector).isNaN

\* The directive of the extract suite selects blocks by a name.
ByName ==
    /\ status = "done"
    /\ Selector # None
    /\ (Keyword = <<"include", "sub">> \/ ParseInt(Selector).isNaN)

\* C9: with an index i on a directive that is not includesub, the extracted
\* text is the body of the i-th block of the file, counted from 0, and the
\* empty text when the file has no such block.
C9_PositionalSelection ==
    ByIndex =>
        result = IF /\ 0 <= ParseInt(Selector).value
                    /\ ParseInt(Selector).value < Len(PiecesOf("block"))
                 THEN Body(PiecesOf("block")[ParseInt(Selector).value + 1])
                 ELSE <<>>

\* C10: with a name on an includesub directive, or an id that is no number
\* on another directive, the extracted text is the bodies of the blocks of
\* that name in file order with one "\n" between them, empty when there is
\* none; blocks of other names add nothing.
C10_NamedSelection ==
    ByName =>
        result =
            JoinWith([k \in 1..Len(Named(IF Keyword = <<"include", "sub">>
                                         THEN "sub" ELSE "id", Selector)) |->
                         Body(Named(IF Keyword = <<"include", "sub">>
                                    THEN "sub" ELSE "id", Selector)[k])],
                     <<NL>>)

\* The directive of event i was expanded, as an include_once if once.
Expanded(i, once) ==
    /\ events[i].kind = "expand"
    /\ once => events[i].include = IncludeOnceKeyword

\* Every path of the array was put there by one of the first n directives
\* of the running call.
PutByCall(array, n, once) ==
    \A k \in 1..Len(array) :
        \E i \in 1..n : Expanded(i, once) /\ events[i].filePath = array[k]

\* C11: a call starts with an inclusion stack and an include-once list of
\* its own.  Whatever earlier calls left, every path a directive finds on
\* either array was put there by an earlier directive of the same call, so
\* a duplicate or a cycle is only ever one of this call.
C11_FreshPerCall ==
    status # "idle" =>
        /\ PutByCall(includeOnce, Len(events), TRUE)
        /\ PutByCall(includeStack, Len(events), FALSE)
        /\ \A i \in 1..Len(events) :
              /\ PutByCall(events[i].once, i - 1, TRUE)
              /\ PutByCall(events[i].stack, i - 1, FALSE)
        /\ (status = "error" /\ error = "once") =>
              \E i \in 1..(Len(events) - 1) :
                  /\ Expanded(i, TRUE)
                  /\ events[i].filePath = events[Len(events)].filePath

\* A call returned with PathA included once, after a call that failed two
\* levels down and left PathA on its include-once list and a path on its
\* stack.
C11_Witness ==
    /\ status = "done"
    /\ previous.status = "error"
    /\ previous.stack # <<>>
    /\ Includes(previous.once, PathA)
    /\ \E i \in 1..Len(events) : Expanded(i, TRUE) /\ events[i].filePath = PathA

\* The view of the call's text, its data and its data.url.
ViewOf(text) == JSON5Parse(text).value
DataOf(text) == Get(ViewOf(text), "data")
DataUrl(text) == Get(DataOf(text), "url")

\* The content format the extension of a url names, json when it names
\* none.
NamedFormat(url) ==
    IF \E k \in 1..Len(url) : url[k] = Dot /\ From(url, k + 1) \in FormatTypes
    THEN CHOOSE ext \in FormatTypes :
             \E k \in 1..Len(url) : url[k] = Dot /\ From(url, k + 1) = ext
    ELSE <<"json">>

\* The returned text is that of a view whose data has no url, has the
\* content as its values and, where the input had no format, a format
\* whose type is the one the url names.
Inlined(text, out, content) ==
    /\ JSON5Parse(out).ok
    /\ \A k \in 1..Len(DataOf(out).o) : DataOf(out).o[k][1] # "url"
    /\ Get(DataOf(out), "values") = Str(content)
    /\ Get(DataOf(text), "format") = Undefined =>
           Get(Get(DataOf(out), "format"), "type")
               = Str(NamedFormat(DataUrl(text).s))

\* C12: a call of preprocessVegaLite throws on a text that does not parse;
\* returns its text, with no read, when the view has no data.url (none, or
\* an empty one); otherwise reads data.url once and returns its text when
\* the read of a remote url fails, throws when the read of a local url
\* fails, and returns the text of the view with the content inlined, the
\* url gone and the format type named by the url's extension when the read
\* succeeds.
C12_VegaOutcomes ==
    status \in {"done", "error"} =>
        /\ ~JSON5Parse(diagramText).ok =>
               status = "error" /\ error = "parse" /\ events = <<>>
        /\ (JSON5Parse(diagramText).ok /\ ~Truthy(DataUrl(diagramText))) =>
               status = "done" /\ result = diagramText /\ events = <<>>
        /\ (JSON5Parse(diagramText).ok /\ Truthy(DataUrl(diagramText))) =>
               /\ events = <<Op("read", DataUrl(diagramText).s)>>
               /\ IF VfsReads(vfs, DataUrl(diagramText).s)
                  THEN /\ status = "done"
                       /\ Inlined(diagramText, result,
                                  VfsRead(vfs, DataUrl(diagramText).s))
                  ELSE IF isRemoteUrl(DataUrl(diagramText).s)
                  THEN status = "done" /\ result = diagramText
                  ELSE status = "error" /\ error = "read"

\* A view in the relaxed style whose data.url is a local .csv file was
\* returned with the content inlined and the format type csv.
C12_Witness ==
    /\ status = "done"
    /\ diagramText = WriteValue(ViewOf(diagramText), "relaxed")
    /\ DataUrl(diagramText) = Str(<<"data", Dot, "csv">>)
    /\ Get(DataOf(diagramText), "format") = Undefined
    /\ result # diagramText
    /\ Get(DataOf(result), "values") = Str(VegaContent)
    /\ Get(Get(DataOf(result), "format"), "type") = Str(<<"csv">>)

\* No two places of the array hold the same path.
Distinct(array) ==
    \A i, j \in 1..Len(array) : array[i] = array[j] => i = j

\* C13: the inclusion stack never holds a path twice, and no directive,
\* local or remote, pushes a path that the stack it was handled with holds.
C13_StackDistinct ==
    /\ Distinct(includeStack)
    /\ \A i \in 1..Len(events) :
          /\ Distinct(events[i].stack)
          /\ events[i].kind = "expand" =>
                ~Includes(events[i].stack, events[i].filePath)

\* Three files deep.
C13_Witness ==
    /\ status = "running"
    /\ includeStack = <<PathB, PathA, PathDB>>

\* C14: a hard failure raised in a nested expansion leaves each directive's
\* handler with the inclusion stack as it was before that directive: once
\* the failure has left the outermost directive, and the call with it, the
\* stack is the empty one the call started with.
C14_PoppedOnFailure ==
    status = "error" => includeStack = <<>>

\* The include-once list the directive of event i left.
OnceAfter(i) ==
    IF i < Len(events) THEN events[i + 1].once ELSE includeOnce

\* C15: every include_once directive whose resolution did not fail, skipped
\* ones included, has its resolved path checked against the include-once
\* list: it goes on only with a path the list did not hold, which the list
\* holds from then on, and a directive stopped by the guard had its path on
\* the list; a directive of another kind leaves the list as it was.
C15_GuardAfterSkip ==
    status # "idle" =>
        \A i \in 1..Len(events) :
            IF events[i].include = IncludeOnceKeyword
            THEN /\ events[i].kind \in {"skip", "expand"} =>
                       /\ ~Includes(events[i].once, events[i].filePath)
                       /\ OnceAfter(i) = Append(events[i].once, events[i].filePath)
                 /\ (events[i].kind = "throw" /\ events[i].error = "once") =>
                       Includes(events[i].once, events[i].filePath)
            ELSE OnceAfter(i) = events[i].once

\* The reads among the calls of the Content Source.
Reads(ops) == SelectSeq(ops, LAMBDA op : op.op = "read")

\* C16: a local reference resolves to join(dirPath, url) when the Content
\* Source has that path and to the url otherwise.  A directive whose
\* reference, local or remote, is not a library one reads nothing when the
\* url as written or the resolved path is on the inclusion stack, and
\* otherwise reads once, the resolved path.
C16_LocalResolution ==
    \A i \in 1..Len(events) :
        ~IsLibrary(events[i].url) =>
            IF \/ Includes(events[i].stack, events[i].url)
               \/ Includes(events[i].stack,
                           Target(events[i].url, events[i].dirPath))
            THEN Reads(events[i].ops) = <<>>
            ELSE /\ events[i].filePath = Target(events[i].url, events[i].dirPath)
                 /\ Reads(events[i].ops) = <<Op("read", events[i].filePath)>>

\* From the directory d, "a" was resolved to a for want of d/a, and read
\* once.
C16_Witness ==
    \E i \in 1..Len(events) :
        /\ events[i].dirPath = <<"d">>
        /\ events[i].stack = <<PathDB>>
        /\ events[i].url = PathA
        /\ ~VfsExists(vfs, PathDA)
        /\ events[i].filePath = PathA
        /\ events[i].ops = <<Op("exists", PathDA), Op("read", PathA)>>
        /\ events[i].kind = "expand"

\* The base directory of a text scanned with the stack: "." for the root
\* document, the directory of the file on top of the stack otherwise.
BaseDir(stack) ==
    IF stack = <<>> THEN <<Dot>> ELSE PathDirname(stack[Len(stack)])

\* C17: every directive is resolved against the directory of the file its
\* text was extracted from, "." in the root document: the directives of an
\* included file against that file's directory, and those that follow the
\* inclusion in the including text against the including text's directory
\* again.
C17_BaseDirScoping ==
    /\ \A i \in 1..Len(events) : events[i].dirPath = BaseDir(events[i].stack)
    /\ \A k \in 1..Len(frames) :
          frames[k].dirPath = BaseDir(Slice(includeStack, 1, k - 1))

\* The root includes d/b, whose directive is resolved in d, and then has a
\* second directive, resolved in "." again.
C17_Witness ==
    \E i, j \in 1..Len(events) :
        /\ i < j
        /\ events[i].stack = <<PathDB>>
        /\ events[i].dirPath = <<"d">>
        /\ events[i].kind = "expand"
        /\ events[j].stack = <<>>
        /\ events[j].dirPath = <<Dot>>
        /\ events[j].kind = "expand"

\* C18: the output is made line by line, in order: a line that is no
\* directive and the line of a skipped directive are emitted as they are,
\* the line of a resolved directive is replaced, all of it, by the expansion
\* of its text once that is complete, and the call returns the emitted
\* lines joined.
C18_OutputComposition ==
    [][/\ (Scanning /\ (~MatchInclude(Line).matched \/ Outcome.kind = "skip"))
            => frames' = Emit(frames, Line)
       /\ (Returning /\ Len(frames) > 1)
            => frames' = Emit(Slice(frames, 1, Len(frames) - 1),
                              JoinLines(Top.done))
       /\ (Returning /\ Len(frames) = 1)
            => result' = JoinLines(Top.done)]_vars

\* The directives of events i and j are of the same text: they were handled
\* at the same depth, with no directive of an including text between them.
SameText(i, j) ==
    /\ Len(events[i].stack) = Len(events[j].stack)
    /\ \A k \in i..j : Len(events[k].stack) >= Len(events[i].stack)

\* C19: while nothing was thrown the inclusion stack is balanced.  The
\* running call has one path on it for each text being expanded below the
\* root document, a directive finds the stack the directives before it in
\* its text found, and the stack is empty when the call has returned.
C19_StackBalance ==
    /\ status = "running" => Len(includeStack) = Len(frames) - 1
    /\ status = "done" => includeStack = <<>>
    /\ \A i, j \in 1..Len(events) :
          (i < j /\ SameText(i, j)) => events[j].stack = events[i].stack

\* A call returned after a directive of its document was expanded two files
\* deep and the next directive of the document was skipped.
C19_Witness ==
    /\ status = "done"
    /\ \E i, j \in 1..Len(events) :
          /\ i < j
          /\ Len(events[i].stack) = 1
          /\ events[i].kind = "expand"
          /\ events[j].stack = <<>>
          /\ events[j].kind = "skip"

====
